---- MODULE Spec2Model ----
(***************************************************************************)
(* tonic/src/codec/compression/compression.rs                              *)
(*                                                                         *)
(* The Compression value (negotiation outcome), its three constructors,    *)
(* is_enabled, set_headers and the compress driver.                        *)
(*                                                                         *)
(* Text is modelled as a sequence of one-character strings, so that the    *)
(* split / trim / filter pipeline of parse_accept_encoding_header is       *)
(* computed character by character.  Byte buffers are sequences of small   *)
(* numbers.                                                                *)
(***************************************************************************)
EXTENDS Integers, Sequences, FiniteSets, TLC

VARIABLES
    registry,        \* compressors: names the process-wide registry holds
    request,         \* the inbound metadata / header map (accept-encoding field)
    compression,     \* the Compression value: [compressor |-> Option<name>]
    headers,         \* the outbound http::HeaderMap handed to set_headers
    headers_before,  \* history: headers at entry of the last set_headers
    op,              \* history: the last operation that acted
    in_buffer,       \* unread bytes of in_buffer
    out_buffer,      \* bytes of out_buffer
    pc,              \* position inside Compression::compress
    arg_len,         \* the len argument of the running / last compress call
    reserved,        \* <<n>> once out_buffer.reserve(n) ran in this call, else <<>>
    transformed,     \* "no" | "ok" | "err": the compressor's return in this call
    advanced,        \* in_buffer.advance(len) ran in this call
    result,          \* what the last compress call returned
    in_before,       \* history: in_buffer at entry of the call
    out_before,      \* history: out_buffer at entry of the call
    stream,          \* history: every byte ever put into in_buffer, in order
    consumed,        \* history: sum of len over the calls that returned Ok
    calls,           \* number of compress calls started
    interleaved      \* history: data was appended after a compress call

negVars == <<registry, request, compression, headers, headers_before>>
bufVars == <<in_buffer, out_buffer, pc, arg_len, reserved, transformed, advanced,
             result, in_before, out_before, stream, consumed, calls, interleaved>>
vars == <<registry, request, compression, headers, headers_before, op,
          in_buffer, out_buffer, pc, arg_len, reserved, transformed, advanced,
          result, in_before, out_before, stream, consumed, calls, interleaved>>

(***************************************************************************)
(* Bounds of the model                                                     *)
(***************************************************************************)
MaxPieces == 3      \* pieces an accept-encoding value is assembled from
MaxStream == 3      \* bytes ever appended to in_buffer
MaxCalls == 3       \* compress calls per behaviour
UsizeBits == 16     \* pointer width of the modelled target (usize)

(***************************************************************************)
(* Text                                                                    *)
(***************************************************************************)
None == <<"None">>

IDENTITY == <<"i", "d", "e", "n", "t", "i", "t", "y">>
GZIP == <<"g", "z", "i", "p">>
ZSTD == <<"z", "s", "t", "d">>
DEFLATE == <<"d", "e", "f", "l", "a", "t", "e">>
GRPC == <<"g", "r", "p", "c">>

ACCEPT_ENCODING_HEADER == "grpc-accept-encoding"
ENCODING_HEADER == "grpc-encoding"
CONTENT_TYPE == "content-type"

COMMA == <<",">>
SPACE == <<" ">>
TAB == <<"\t">>
OPAQUE == <<"0xFF">>     \* one byte outside visible ASCII

IsWhitespace(c) == c \in {" ", "\t"}

\* HeaderValue::to_str: Ok only if every byte is visible ASCII or a tab.
ToStrOk(value) == \A i \in 1..Len(value) : value[i] # "0xFF"

\* str::split(","): the pieces between separators, empty ones included.
RECURSIVE SplitFrom(_, _, _)
SplitFrom(s, i, cur) ==
    IF i > Len(s) THEN <<cur>>
    ELSE IF s[i] = "," THEN <<cur>> \o SplitFrom(s, i + 1, <<>>)
    ELSE SplitFrom(s, i + 1, Append(cur, s[i]))

Split(s) == SplitFrom(s, 1, <<>>)

\* str::trim: drops leading and trailing whitespace.
RECURSIVE TrimStart(_)
TrimStart(s) ==
    IF s # <<>> /\ IsWhitespace(Head(s)) THEN TrimStart(Tail(s)) ELSE s

RECURSIVE TrimEnd(_)
TrimEnd(s) ==
    IF s # <<>> /\ IsWhitespace(s[Len(s)]) THEN TrimEnd(SubSeq(s, 1, Len(s) - 1)) ELSE s

Trim(s) == TrimEnd(TrimStart(s))

parse_accept_encoding_header(value) ==
    LET parts == Split(value)
        trimmed == [i \in 1..Len(parts) |-> Trim(parts[i])]
        NotEmpty(v) == v # <<>>
    IN SelectSeq(trimmed, NotEmpty)

(***************************************************************************)
(* The registry (compressors.rs is not among the sources)                  *)
(***************************************************************************)
compressors_get(name) == IF name \in registry THEN name ELSE None

compressors_identity == IDENTITY

\* variant: the last registered candidate wins instead of the first
first_supported_compressor_last(accepted) ==
    LET NotIdentity(name) == name # IDENTITY
        Found(name) == compressors_get(name) # None
        hits == SelectSeq(SelectSeq(accepted, NotIdentity), Found)
    IN IF hits = <<>> THEN None ELSE compressors_get(hits[Len(hits)])

\* variant: the "identity" token is not filtered out
first_supported_compressor_any(accepted) ==
    LET Found(name) == compressors_get(name) # None
        hits == SelectSeq(accepted, Found)
    IN IF hits = <<>> THEN None ELSE compressors_get(hits[1])

first_supported_compressor(accepted) ==
    LET NotIdentity(name) == name # IDENTITY
        Found(name) == compressors_get(name) # None
        hits == SelectSeq(SelectSeq(accepted, NotIdentity), Found)
    IN IF hits = <<>> THEN None ELSE compressors_get(hits[1])

(***************************************************************************)
(* The request: the accept-encoding field of the metadata / header map     *)
(***************************************************************************)
Pieces == {COMMA, SPACE, TAB, OPAQUE, IDENTITY, GZIP, ZSTD, DEFLATE}

PieceSeqs == UNION {[1..n -> Pieces] : n \in 0..MaxPieces}

RECURSIVE Flatten(_)
Flatten(ps) == IF ps = <<>> THEN <<>> ELSE Head(ps) \o Flatten(Tail(ps))

Requests ==
    {[present |-> FALSE, pieces |-> <<>>]}
        \cup {[present |-> TRUE, pieces |-> ps] : ps \in PieceSeqs}

\* variant: a lossy conversion that drops the bytes that are not text
AcceptEncodingTextLossy(req) ==
    IF ~req.present THEN <<>>
    ELSE LET IsText(c) == c # "0xFF" IN SelectSeq(Flatten(req.pieces), IsText)

\* .get(ACCEPT_ENCODING_HEADER).and_then(|v| v.to_str().ok()).unwrap_or("")
AcceptEncodingText(req) ==
    IF ~req.present THEN <<>>
    ELSE IF ~ToStrOk(Flatten(req.pieces)) THEN <<>>
    ELSE Flatten(req.pieces)

Negotiate(req) ==
    [compressor |->
        first_supported_compressor(parse_accept_encoding_header(AcceptEncodingText(req)))]

NotCreated == [compressor |-> <<"NotCreated">>]

is_enabled(c) == c.compressor # None

(***************************************************************************)
(* Constructors and set_headers                                            *)
(***************************************************************************)
disabled ==
    /\ compression = NotCreated
    /\ compression' = [compressor |-> None]
    /\ op' = "disabled"
    /\ UNCHANGED <<registry, request, headers, headers_before>>
    /\ UNCHANGED bufVars

response_from_metadata ==
    /\ compression = NotCreated
    /\ compression' = Negotiate(request)
    /\ op' = "response_from_metadata"
    /\ UNCHANGED <<registry, request, headers, headers_before>>
    /\ UNCHANGED bufVars

response_from_headers ==
    /\ compression = NotCreated
    /\ compression' = Negotiate(request)
    /\ op' = "response_from_headers"
    /\ UNCHANGED <<registry, request, headers, headers_before>>
    /\ UNCHANGED bufVars

\* variant: HeaderMap::append, which keeps the values already there
HeaderAppend(h, key, value) == [h EXCEPT ![key] = Append(@, value)]

\* http::HeaderMap::insert: the key's values are replaced by the one value.
HeaderInsert(h, key, value) == [h EXCEPT ![key] = <<value>>]

\* variant: the None arm removes the field
HeadersAfterSetClearing(c, h) ==
    IF c.compressor = None THEN [h EXCEPT ![ENCODING_HEADER] = <<>>]
    ELSE HeaderInsert(h, ENCODING_HEADER, c.compressor)

HeadersAfterSet(c, h) ==
    IF c.compressor = None THEN h
    ELSE HeaderInsert(h, ENCODING_HEADER, c.compressor)

set_headers ==
    /\ compression # NotCreated
    /\ op # "set_headers"
    /\ headers_before' = headers
    /\ headers' = HeadersAfterSet(compression, headers)
    /\ op' = "set_headers"
    /\ UNCHANGED <<registry, request, compression>>
    /\ UNCHANGED bufVars

Registries == {{IDENTITY} \cup s : s \in SUBSET {GZIP, ZSTD}}

HeaderMaps ==
    {[k \in {ENCODING_HEADER, CONTENT_TYPE} |->
        IF k = ENCODING_HEADER THEN e ELSE <<GRPC>>] :
            e \in {<<>>, <<GZIP>>, <<DEFLATE, GZIP>>}}

BufInit ==
    /\ in_buffer = <<>>
    /\ out_buffer = <<>>
    /\ pc = "idle"
    /\ arg_len = 0
    /\ reserved = <<>>
    /\ transformed = "no"
    /\ advanced = FALSE
    /\ result = "none"
    /\ in_before = <<>>
    /\ out_before = <<>>
    /\ stream = <<>>
    /\ consumed = 0
    /\ calls = 0
    /\ interleaved = FALSE

InitNegotiate ==
    /\ registry \in Registries
    /\ request \in Requests
    /\ compression = NotCreated
    /\ headers \in HeaderMaps
    /\ headers_before = headers
    /\ op = "init"
    /\ BufInit

NextNegotiate ==
    \/ disabled
    \/ response_from_metadata
    \/ response_from_headers
    \/ set_headers

SpecNegotiate == InitNegotiate /\ [][NextNegotiate]_vars

(***************************************************************************)
(* Compression::compress                                                   *)
(***************************************************************************)
BUFFER_SIZE == 8 * 1024

UsizeMax == 2^UsizeBits - 1
IsizeMax == 2^(UsizeBits - 1) - 1

Bytes == {0, 1}

\* Compressor::compress of the named capability on the bytes it is handed:
\* identity returns them unchanged, any other capability frames them.
CompressorOutput(name, bytes) ==
    IF name = IDENTITY THEN bytes
    ELSE <<2>> \o bytes \o <<Len(bytes) % 2>>

\* self.compressor.unwrap_or_else(compressors::identity)
ActiveCompressor(c) ==
    IF c.compressor = None THEN compressors_identity ELSE c.compressor

\* variant: len rounded up to a multiple of BUFFER_SIZE
ReserveArgCeil(len) == ((len + BUFFER_SIZE - 1) \div BUFFER_SIZE) * BUFFER_SIZE

\* ((len / BUFFER_SIZE) + 1) * BUFFER_SIZE, before it is fitted into a usize
ReserveArg(len) == ((len \div BUFFER_SIZE) + 1) * BUFFER_SIZE

\* bytes::Buf::advance(cnt)
Advance(buf, cnt) == SubSeq(buf, cnt + 1, Len(buf))

\* what a failing compressor may have appended before it failed: nothing, or
\* the first byte of its output
PartialOutputs(s) == {SubSeq(s, 1, n) : n \in 0..(IF s = <<>> THEN 0 ELSE 1)}

\* the bytes a compressor asked for len bytes can read of buf
Readable(buf, len) == SubSeq(buf, 1, IF len <= Len(buf) THEN len ELSE Len(buf))

Lens ==
    (0..MaxStream)
        \cup {BUFFER_SIZE - 1, BUFFER_SIZE, BUFFER_SIZE + 1, 2 * BUFFER_SIZE,
              IsizeMax, UsizeMax - BUFFER_SIZE, UsizeMax - BUFFER_SIZE + 1, UsizeMax}

Chunks == UNION {[1..n -> Bytes] : n \in 1..2}

\* the framing layer puts further unread data into in_buffer between calls
append(data) ==
    /\ pc = "idle"
    /\ compression # NotCreated
    /\ Len(stream) + Len(data) <= MaxStream
    /\ in_buffer' = in_buffer \o data
    /\ stream' = stream \o data
    /\ interleaved' = (interleaved \/ calls >= 1)
    /\ op' = "append"
    /\ UNCHANGED negVars
    /\ UNCHANGED <<out_buffer, pc, arg_len, reserved, transformed, advanced,
                   result, in_before, out_before, consumed, calls>>

\* entry of compress(&self, in_buffer, out_buffer, len)
compress_call(len) ==
    /\ pc = "idle"
    /\ compression # NotCreated
    /\ calls < MaxCalls
    /\ pc' = "reserve"
    /\ arg_len' = len
    /\ reserved' = <<>>
    /\ transformed' = "no"
    /\ advanced' = FALSE
    /\ result' = "pending"
    /\ in_before' = in_buffer
    /\ out_before' = out_buffer
    /\ calls' = calls + 1
    /\ op' = "compress"
    /\ UNCHANGED negVars
    /\ UNCHANGED <<in_buffer, out_buffer, stream, consumed, interleaved>>

\* variant: nothing is reserved for an empty range
compress_reserve_skipped ==
    /\ pc = "reserve"
    /\ pc' = "transform"
    /\ reserved' = IF arg_len = 0 THEN <<>> ELSE <<ReserveArg(arg_len) % (UsizeMax + 1)>>
    /\ UNCHANGED negVars
    /\ UNCHANGED <<op, in_buffer, out_buffer, arg_len, transformed, advanced, result,
                   in_before, out_before, stream, consumed, calls, interleaved>>

\* out_buffer.reserve(((len / BUFFER_SIZE) + 1) * BUFFER_SIZE);
\* when the product does not fit a usize, a build with overflow checks panics
\* and a build without them wraps.
compress_reserve ==
    /\ pc = "reserve"
    /\ \/ /\ ReserveArg(arg_len) <= UsizeMax
          /\ reserved' = <<ReserveArg(arg_len)>>
          /\ pc' = "transform"
          /\ UNCHANGED result
       \/ /\ ReserveArg(arg_len) > UsizeMax
          /\ reserved' = <<ReserveArg(arg_len) % (UsizeMax + 1)>>
          /\ pc' = "transform"
          /\ UNCHANGED result
       \/ /\ ReserveArg(arg_len) > UsizeMax
          /\ pc' = "panicked"
          /\ result' = "Panic"
          /\ UNCHANGED reserved
    /\ UNCHANGED negVars
    /\ UNCHANGED <<op, in_buffer, out_buffer, arg_len, transformed, advanced,
                   in_before, out_before, stream, consumed, calls, interleaved>>

\* variant: the compressor is handed the whole buffer instead of len bytes
compress_transform_ok_whole ==
    /\ pc = "transform"
    /\ arg_len <= Len(in_buffer)
    /\ out_buffer' = out_buffer
            \o CompressorOutput(ActiveCompressor(compression), in_buffer)
    /\ transformed' = "ok"
    /\ pc' = "advance"
    /\ UNCHANGED negVars
    /\ UNCHANGED <<op, in_buffer, arg_len, reserved, advanced, result,
                   in_before, out_before, stream, consumed, calls, interleaved>>

\* compressor.compress(in_buffer, out_buffer, len) returned Ok
compress_transform_ok ==
    /\ pc = "transform"
    /\ arg_len <= Len(in_buffer)
    /\ out_buffer' = out_buffer
            \o CompressorOutput(ActiveCompressor(compression), SubSeq(in_buffer, 1, arg_len))
    /\ transformed' = "ok"
    /\ pc' = "advance"
    /\ UNCHANGED negVars
    /\ UNCHANGED <<op, in_buffer, arg_len, reserved, advanced, result,
                   in_before, out_before, stream, consumed, calls, interleaved>>

\* variant: the compressor's error is dropped and the call carries on
compress_transform_err_swallowed ==
    /\ pc = "transform"
    /\ ActiveCompressor(compression) # IDENTITY
    /\ arg_len <= Len(in_buffer)
    /\ transformed' = "err"
    /\ pc' = "advance"
    /\ UNCHANGED negVars
    /\ UNCHANGED <<op, in_buffer, out_buffer, arg_len, reserved, advanced, result,
                   in_before, out_before, stream, consumed, calls, interleaved>>

\* compressor.compress(...) returned Err: the ? operator returns it at once.
\* The identity capability never fails; a failing one may have written part
\* of its output.
compress_transform_err ==
    /\ pc = "transform"
    /\ ActiveCompressor(compression) # IDENTITY
    /\ \E part \in PartialOutputs(CompressorOutput(ActiveCompressor(compression),
                                Readable(in_buffer, arg_len))) :
            out_buffer' = out_buffer \o part
    /\ transformed' = "err"
    /\ result' = "Err"
    /\ pc' = "idle"
    /\ UNCHANGED negVars
    /\ UNCHANGED <<op, in_buffer, arg_len, reserved, advanced,
                   in_before, out_before, stream, consumed, calls, interleaved>>

\* fewer than len unread bytes: reading in_buffer[..len] panics
compress_transform_panic ==
    /\ pc = "transform"
    /\ arg_len > Len(in_buffer)
    /\ result' = "Panic"
    /\ pc' = "panicked"
    /\ UNCHANGED negVars
    /\ UNCHANGED <<op, in_buffer, out_buffer, arg_len, reserved, transformed, advanced,
                   in_before, out_before, stream, consumed, calls, interleaved>>

compress_transform ==
    \/ compress_transform_ok
    \/ compress_transform_err
    \/ compress_transform_panic

\* variant: the whole input buffer is dropped instead of len bytes
compress_advance_clear ==
    /\ pc = "advance"
    /\ in_buffer' = <<>>
    /\ advanced' = TRUE
    /\ consumed' = consumed + arg_len
    /\ result' = "Ok"
    /\ pc' = "idle"
    /\ UNCHANGED negVars
    /\ UNCHANGED <<op, out_buffer, arg_len, reserved, transformed,
                   in_before, out_before, stream, calls, interleaved>>

\* in_buffer.advance(len); debug!(...); Ok(())
compress_advance ==
    /\ pc = "advance"
    /\ in_buffer' = Advance(in_buffer, arg_len)
    /\ advanced' = TRUE
    /\ consumed' = consumed + arg_len
    /\ result' = "Ok"
    /\ pc' = "idle"
    /\ UNCHANGED negVars
    /\ UNCHANGED <<op, out_buffer, arg_len, reserved, transformed,
                   in_before, out_before, stream, calls, interleaved>>

\* a call whose peer sent no accept-encoding field, or "gzip", served by a
\* build with or without the gzip feature
CallRequests ==
    {[present |-> FALSE, pieces |-> <<>>],
     [present |-> TRUE, pieces |-> <<GZIP>>]}

InitCompress ==
    /\ registry \in {{IDENTITY}, {IDENTITY, GZIP}}
    /\ request \in CallRequests
    /\ compression \in {Negotiate(request), [compressor |-> None]}
    /\ headers = [k \in {ENCODING_HEADER, CONTENT_TYPE} |->
                    IF k = ENCODING_HEADER THEN <<>> ELSE <<GRPC>>]
    /\ headers_before = headers
    /\ op = "init"
    /\ BufInit

NextCompress ==
    \/ \E data \in Chunks : append(data)
    \/ \E len \in Lens : compress_call(len)
    \/ compress_reserve
    \/ compress_transform
    \/ compress_advance

SpecCompress == InitCompress /\ [][NextCompress]_vars

(***************************************************************************)
(* Properties of the negotiation (checked under SpecNegotiate)             *)
(***************************************************************************)
Negotiated == op \in {"response_from_metadata", "response_from_headers"}

IsTextRequest ==
    /\ request.present
    /\ \A i \in 1..Len(request.pieces) : request.pieces[i] # OPAQUE

\* The peer's candidates, read off the pieces the value was assembled from:
\* the runs of pieces between commas, without the whitespace pieces at
\* either end, the empty runs left out.
RECURSIVE PieceGroups(_, _)
PieceGroups(ps, cur) ==
    IF ps = <<>> THEN <<cur>>
    ELSE IF Head(ps) = COMMA THEN <<cur>> \o PieceGroups(Tail(ps), <<>>)
    ELSE PieceGroups(Tail(ps), Append(cur, Head(ps)))

IsBlank(piece) == piece \in {SPACE, TAB}

Core(group) ==
    LET inner == {i \in 1..Len(group) : ~IsBlank(group[i])}
    IN IF inner = {} THEN <<>>
       ELSE SubSeq(group,
                   CHOOSE i \in inner : \A j \in inner : i <= j,
                   CHOOSE i \in inner : \A j \in inner : j <= i)

PeerTokens(ps) ==
    LET groups == PieceGroups(ps, <<>>)
        tokens == [i \in 1..Len(groups) |-> Flatten(Core(groups[i]))]
        Named(t) == t # <<>>
    IN SelectSeq(tokens, Named)

FirstRegistered(ps) ==
    LET tokens == PeerTokens(ps)
        usable == {i \in 1..Len(tokens) : tokens[i] # IDENTITY /\ tokens[i] \in registry}
    IN IF usable = {} THEN None
       ELSE tokens[CHOOSE i \in usable : \A j \in usable : i <= j]

\* C1: for every accept-encoding text and registry, the outcome holds exactly
\* the first token (split on ',', trimmed, empty ones dropped, "identity"
\* skipped, in the peer's order) that the registry has, and none if there is
\* no such token; unknown tokens before it change nothing.
C1_FirstRegisteredTokenSelected ==
    (Negotiated /\ IsTextRequest)
        => compression.compressor = FirstRegistered(request.pieces)

C1_Witness ==
    /\ Negotiated
    /\ request.present
    /\ request.pieces = <<DEFLATE, COMMA, GZIP>>
    /\ registry = {IDENTITY, GZIP}
    /\ compression.compressor = GZIP

\* the inputs C2 names: no field, a field that is not text, an empty value,
\* a value of commas and whitespace only, the value "identity"
DegenerateRequest ==
    \/ ~request.present
    \/ \E i \in 1..Len(request.pieces) : request.pieces[i] = OPAQUE
    \/ \A i \in 1..Len(request.pieces) : request.pieces[i] \in {COMMA, SPACE, TAB}
    \/ request.pieces = <<IDENTITY>>

\* C2: negotiation never fails: for a missing field, a field that is not
\* readable as text, an empty value, a value of commas and whitespace only, or
\* "identity", both constructors return an outcome with is_enabled() false.
C2_DegenerateInputYieldsDisabled ==
    (Negotiated /\ DegenerateRequest)
        => /\ compression = [compressor |-> None]
           /\ ~is_enabled(compression)

C2_Witness ==
    /\ op = "response_from_headers"
    /\ request.present
    /\ request.pieces = <<GZIP, COMMA, OPAQUE>>
    /\ GZIP \in registry
    /\ ~is_enabled(compression)

\* C6: for every outcome of disabled / response_from_metadata /
\* response_from_headers, is_enabled() is true iff the outcome holds a
\* registered compressor other than "identity"; identity is never the
\* selected compressor although the registry always holds it.
C6_EnabledIffNonIdentityRegistered ==
    (compression # NotCreated)
        => /\ IDENTITY \in registry
           /\ compression.compressor # IDENTITY
           /\ is_enabled(compression)
                <=> (compression.compressor \in registry \ {IDENTITY})

C6_Witness ==
    /\ Negotiated
    /\ request.present
    /\ request.pieces = <<SPACE, IDENTITY, TAB>>
    /\ compression.compressor = None
    /\ ~is_enabled(compression)

\* C4 as stated: for every header map, one that already has a grpc-encoding
\* entry included, after set_headers the field is present only if a
\* non-identity compressor is selected, and then holds exactly its name.
C4_FieldPresentOnlyIfSelected ==
    (op = "set_headers")
        => /\ headers[ENCODING_HEADER] # <<>> => is_enabled(compression)
           /\ is_enabled(compression)
                => headers[ENCODING_HEADER] = <<compression.compressor>>

\* C4 (amended): after set_headers, if a compressor is selected the
\* grpc-encoding field holds exactly one value, that compressor's name, which
\* is not "identity", whatever the map held before; if none is selected the
\* field is as it was before the call, so it is absent when the map handed in
\* had no grpc-encoding entry.
C4_FieldSetIffSelectedElseKept ==
    (op = "set_headers")
        => /\ is_enabled(compression)
                => /\ headers[ENCODING_HEADER] = <<compression.compressor>>
                   /\ compression.compressor # IDENTITY
           /\ ~is_enabled(compression)
                => headers[ENCODING_HEADER] = headers_before[ENCODING_HEADER]
           /\ (headers_before[ENCODING_HEADER] = <<>> /\ headers[ENCODING_HEADER] # <<>>)
                => is_enabled(compression)

C4_Witness ==
    /\ op = "set_headers"
    /\ headers_before[ENCODING_HEADER] = <<DEFLATE, GZIP>>
    /\ compression.compressor = ZSTD
    /\ headers[ENCODING_HEADER] = <<ZSTD>>

\* C10: set_headers changes no entry other than grpc-encoding and never
\* clears a grpc-encoding value that was there: with no compressor selected
\* the whole map is as it was, with one selected every entry under another
\* name is unchanged.
C10_OtherEntriesKept ==
    (op = "set_headers")
        => /\ \A k \in (DOMAIN headers) \ {ENCODING_HEADER} : headers[k] = headers_before[k]
           /\ DOMAIN headers = DOMAIN headers_before
           /\ ~is_enabled(compression) => headers = headers_before
           /\ headers_before[ENCODING_HEADER] # <<>> => headers[ENCODING_HEADER] # <<>>

C10_Witness ==
    /\ op = "set_headers"
    /\ ~is_enabled(compression)
    /\ headers_before[ENCODING_HEADER] = <<GZIP>>
    /\ headers[CONTENT_TYPE] = <<GRPC>>

(***************************************************************************)
(* Properties of compress (checked under SpecCompress)                     *)
(***************************************************************************)
Returned(r) == op = "compress" /\ pc = "idle" /\ result = r

\* C3: after compress returns Ok, exactly len bytes are gone from the front
\* of in_buffer, the rest is unchanged and in order, and out_buffer is its
\* previous content followed by exactly the transform's result.
C3_OkConsumesLenAndAppends ==
    Returned("Ok")
        => /\ arg_len <= Len(in_before)
           /\ Len(in_buffer) = Len(in_before) - arg_len
           /\ \A i \in 1..Len(in_buffer) : in_buffer[i] = in_before[arg_len + i]
           /\ out_buffer = out_before
                \o CompressorOutput(ActiveCompressor(compression),
                                    SubSeq(in_before, 1, arg_len))

C3_Witness ==
    /\ Returned("Ok")
    /\ is_enabled(compression)
    /\ arg_len >= 1
    /\ in_buffer # <<>>
    /\ out_before # <<>>

\* C5: with no compressor selected, after any sequence of successful compress
\* calls interleaved with appends to the input, the output holds exactly the
\* first consumed bytes of the input stream, unchanged and in order, and the
\* unread input is exactly the rest of the stream.
C5_IdentityStreamsUnchanged ==
    (compression = [compressor |-> None] /\ pc = "idle")
        => /\ consumed <= Len(stream)
           /\ out_buffer = SubSeq(stream, 1, consumed)
           /\ in_buffer = SubSeq(stream, consumed + 1, Len(stream))

C5_Witness ==
    /\ compression = [compressor |-> None]
    /\ Returned("Ok")
    /\ interleaved
    /\ calls >= 2
    /\ arg_len >= 1
    /\ consumed > arg_len
    /\ in_buffer # <<>>

\* C7: if the active compressor reports an error, compress returns that error
\* and in_buffer is not advanced: the same bytes are still unread.
C7_ErrorReturnedInputKept ==
    (op = "compress" /\ transformed = "err")
        => /\ pc = "idle"
           /\ result = "Err"
           /\ ~advanced
           /\ in_buffer = in_before

C7_Witness ==
    /\ Returned("Err")
    /\ transformed = "err"
    /\ arg_len >= 1
    /\ arg_len <= Len(in_buffer)

\* C8: in every call, for every len and whichever compressor is active, the
\* reserve on out_buffer comes before the compressor is invoked and is never
\* skipped, and in_buffer is advanced only after the compressor returned Ok.
C8_ReserveThenTransformThenAdvance ==
    [][/\ (pc = "transform" /\ pc' # "transform")
            => (reserved # <<>> /\ reserved' = reserved)
       /\ (transformed = "no" /\ transformed' # "no") => reserved # <<>>
       /\ (in_buffer' # in_buffer /\ pc # "idle")
            => (transformed = "ok" /\ reserved # <<>> /\ advanced')
       /\ (~advanced /\ advanced') => transformed = "ok"]_vars

C8_Witness ==
    /\ Returned("Ok")
    /\ arg_len = 0
    /\ compression = [compressor |-> None]
    /\ reserved = <<BUFFER_SIZE>>
    /\ transformed = "ok"
    /\ advanced

\* C9 as stated: the capacity reserved is len rounded up to a multiple of
\* 8192: a multiple of 8192, at least len, and the smallest such.
C9_ReservedIsLenRoundedUp ==
    (reserved # <<>> /\ arg_len <= IsizeMax)
        => /\ reserved[1] % BUFFER_SIZE = 0
           /\ reserved[1] >= arg_len
           /\ reserved[1] - arg_len < BUFFER_SIZE

\* C9 (amended): the capacity reserved is the smallest multiple of 8192
\* strictly greater than len (len rounded down to a multiple of 8192, plus
\* 8192): a len that is an exact multiple of 8192 reserves len + 8192, and
\* len = 0 reserves 8192.  The computation does not overflow for any
\* len <= usize::MAX - 8192, which covers every len a buffer can hold.
C9_ReservedIsNextMultipleAbove ==
    (op = "compress" /\ pc # "reserve" /\ arg_len <= UsizeMax - BUFFER_SIZE)
        => /\ reserved # <<>>
           /\ reserved[1] % BUFFER_SIZE = 0
           /\ reserved[1] > arg_len
           /\ reserved[1] - arg_len <= BUFFER_SIZE
           /\ reserved[1] <= UsizeMax
           /\ IsizeMax <= UsizeMax - BUFFER_SIZE

C9_Witness ==
    /\ op = "compress"
    /\ arg_len = BUFFER_SIZE
    /\ reserved = <<2 * BUFFER_SIZE>>

====
